---- MODULE Spec2Model ----
(***************************************************************************)
(* A model of the pbrt scene-description parser (src/core/parser.rs).      *)
(*                                                                         *)
(* The parser is a set of nom 3 combinator parsers over a byte slice.  A   *)
(* byte slice is a sequence of one-character strings; a parser is an       *)
(* operator P(s, p) that reads buffer s from the 1-based position p and    *)
(* returns an IResult:                                                     *)
(*     [t |-> "Done", p |-> next position, v |-> output]                   *)
(*     [t |-> "Error"]        (nom's IResult::Error; kind and position     *)
(*                             are not modelled)                           *)
(*     [t |-> "Incomplete"]   (nom's IResult::Incomplete; the Needed count *)
(*                             is not modelled)                            *)
(*     [t |-> "Panic"]        (the process aborted inside the parser)      *)
(* The remaining input of a Done is the suffix of s from position p.       *)
(***************************************************************************)
EXTENDS Integers, Sequences, FiniteSets, TLC

\* src:   the description the input text is written from
\* input: the bytes given to the parser
\* buf:   the input stripped of its comments by parse_scene
\* out:   the result of the call (None before it returns)
\* out2:  the result of the call on the second way of writing the input
\* pc:    the position of the caller
VARIABLES src, input, buf, out, out2, pc

vars == <<src, input, buf, out, out2, pc>>

(***************************************************************************)
(* Bounds of the explored inputs.                                          *)
(***************************************************************************)
\* The longest value list of any literals explored.
MaxLits == 2

\* The longest value list of numbers explored.
MaxRun == 6

\* The longest run of option directives explored.
MaxOpts == 2

\* The longest world section of attribute scopes, shapes and materials.
MaxWorld == 5

\* The longest world section of any world directives.
MaxMixed == 2

\* The longest parameter set explored.
MaxItems == 3

\* The longest run of digits in a numeric literal explored.
MaxDigits == 2

\* The longest text of arbitrary bytes explored.
MaxText == 5

None == [t |-> "None"]

\* ------------------------------------------------------------------------
\* IResult
\* ------------------------------------------------------------------------
Done(p, v) == [t |-> "Done", p |-> p, v |-> v]
Err == [t |-> "Error"]
Inc == [t |-> "Incomplete"]
Panic == [t |-> "Panic"]

\* ------------------------------------------------------------------------
\* Byte classes and literals
\* ------------------------------------------------------------------------
DigitChars == {"0", "1", "2", "3", "4", "5", "6", "7", "8", "9"}

AlphaChars ==
  {"a", "b", "c", "d", "e", "f", "g", "h", "i", "j", "k", "l", "m",
   "n", "o", "p", "q", "r", "s", "t", "u", "v", "w", "x", "y", "z",
   "A", "B", "C", "D", "E", "F", "G", "H", "I", "J", "K", "L", "M",
   "N", "O", "P", "Q", "R", "S", "T", "U", "V", "W", "X", "Y", "Z"}

AlphaNumChars == AlphaChars \cup DigitChars

SpaceChars == {" ", "\t"}

WsChars == {" ", "\t", "\r", "\n"}

DigitVal(c) ==
  CASE c = "0" -> 0 [] c = "1" -> 1 [] c = "2" -> 2 [] c = "3" -> 3
    [] c = "4" -> 4 [] c = "5" -> 5 [] c = "6" -> 6 [] c = "7" -> 7
    [] c = "8" -> 8 [] c = "9" -> 9

QUOTE == "\""

\* The byte 0xFF, which occurs in no UTF-8 text.
xFF == "0xFF"

\* The bytes explored that cannot be part of UTF-8 text.
NonUtf8 == {xFF}

\* ------------------------------------------------------------------------
\* nom primitives
\* ------------------------------------------------------------------------
\* First position at or after p whose byte is not in cls.
RECURSIVE scan(_, _, _)
scan(s, p, cls) ==
  IF p <= Len(s) /\ s[p] \in cls THEN scan(s, p + 1, cls) ELSE p

\* tag!(t): compares the common prefix first; a strict prefix of t is
\* Incomplete, a mismatch is Error.
tag(s, p, t) ==
  LET len == Len(s) - p + 1
      blen == Len(t)
      m == IF len < blen THEN len ELSE blen
  IN  IF \E k \in 1..m : s[p + k - 1] # t[k] THEN Err
      ELSE IF m < blen THEN Inc
      ELSE Done(p + blen, t)

\* nom::digit, nom::alphanumeric, nom::space: one or more bytes of the
\* class; Incomplete on empty input, Done at the end of the input.
class1(s, p, cls) ==
  IF p > Len(s) THEN Inc
  ELSE LET q == scan(s, p, cls)
       IN  IF q = p THEN Err ELSE Done(q, SubSeq(s, p, q - 1))

digit(s, p) == class1(s, p, DigitChars)

alphanumeric(s, p) == class1(s, p, AlphaNumChars)

space(s, p) == class1(s, p, SpaceChars)

\* nom::sp, the separator of ws!: skips " \t\r\n", never fails.
sp(s, p) == scan(s, p, WsChars)

\* complete!: Incomplete becomes Error.
complete(r) == IF r.t = "Incomplete" THEN Err ELSE r

\* alt! of two results: only an Error moves on to the next alternative;
\* Incomplete (and an abort) is returned at once.
alt2(r1, r2) == IF r1.t = "Error" THEN r2 ELSE r1

\* opt!: Error becomes Done(None) at the same position.
opt(r, p) ==
  CASE r.t = "Done" -> Done(r.p, <<r.v>>)
    [] r.t = "Error" -> Done(p, <<>>)
    [] OTHER -> r

\* The trailing half of ws!: after a Done, sp eats the following separator.
ws_end(s, r) == IF r.t = "Done" THEN Done(sp(s, r.p), r.v) ELSE r

\* do_parse!, tuple!, delimited!: a chain of steps.  The result r of the
\* steps so far carries the outputs kept so far in r.v; a step runs its
\* parser at r.p when r is Done, and a step that is not Done ends the
\* chain with its own result.
Start(p) == Done(p, <<>>)

\* The step's result x joins the chain r: keep(r, x) keeps its output,
\* drop(r, x) only moves on.
keep(r, x) == IF x.t # "Done" THEN x ELSE Done(x.p, Append(r.v, x.v))

drop(r, x) == IF x.t # "Done" THEN x ELSE Done(x.p, r.v)

\* tag!(t) as a step, and as a step inside ws! (sp first).
do_tag(s, r, t) == IF r.t # "Done" THEN r ELSE drop(r, tag(s, r.p, t))

do_ws_tag(s, r, t) ==
  IF r.t # "Done" THEN r ELSE drop(r, tag(s, sp(s, r.p), t))

\* The output of a chain whose steps kept one output.
only(r) == IF r.t = "Done" THEN Done(r.p, r.v[1]) ELSE r

\* The positions at or after p that hold the byte c.
positions(s, p, c) == {i \in p..Len(s) : s[i] = c}

\* The first position at or after p that holds the byte c, 0 if none does.
find(s, p, c) ==
  IF positions(s, p, c) = {} THEN 0
  ELSE CHOOSE i \in positions(s, p, c) :
         \A j \in positions(s, p, c) : i <= j

\* take_until!(t) for a one-byte t.

take_until(s, p, c) ==
  IF 1 > Len(s) - p + 1 THEN Inc
  ELSE LET q == find(s, p, c)
       IN  IF q = 0 THEN Err ELSE Done(q, SubSeq(s, p, q - 1))

\* ------------------------------------------------------------------------
\* Literal conversions (parse_to!)
\* ------------------------------------------------------------------------
RECURSIVE DigitsVal(_, _)
DigitsVal(ds, acc) ==
  IF ds = <<>> THEN acc
  ELSE DigitsVal(Tail(ds), 10 * acc + DigitVal(Head(ds)))

\* A decimal m * 10^e in normal form: m is not a multiple of 10, and zero
\* is <<0, 0>>.  Two literals denote the same real iff their forms agree.
RECURSIVE Normal(_, _)
Normal(m, e) ==
  IF m = 0 THEN <<0, 0>>
  ELSE IF m % 10 = 0 THEN Normal(m \div 10, e + 1)
  ELSE <<m, e>>

\* <f64 as FromStr>::from_str on a literal the number grammar recognised:
\* sign, integral digits, "." and fractional digits, exponent.
ParseFloat(lex) ==
  LET neg == lex # <<>> /\ lex[1] = "-"
      p0 == IF lex # <<>> /\ lex[1] \in {"+", "-"} THEN 2 ELSE 1
      p1 == scan(lex, p0, DigitChars)
      hasDot == p1 <= Len(lex) /\ lex[p1] = "."
      p2 == IF hasDot THEN p1 + 1 ELSE p1
      p3 == scan(lex, p2, DigitChars)
      hasExp == p3 <= Len(lex) /\ lex[p3] \in {"e", "E"}
      eneg == hasExp /\ p3 + 1 <= Len(lex) /\ lex[p3 + 1] = "-"
      p4 == IF hasExp /\ p3 + 1 <= Len(lex) /\ lex[p3 + 1] \in {"+", "-"}
            THEN p3 + 2 ELSE p3 + 1
      ex == IF hasExp THEN DigitsVal(SubSeq(lex, p4, Len(lex)), 0) ELSE 0
      mant == DigitsVal(SubSeq(lex, p0, p1 - 1) \o SubSeq(lex, p2, p3 - 1), 0)
      m == IF neg THEN 0 - mant ELSE mant
      e == (IF eneg THEN 0 - ex ELSE ex) - (p3 - p2)
  IN  Normal(m, e)

\* <i64 as FromStr>::from_str on sign and digits.  The literals explored
\* are a few digits long, far inside the i64 range, so the overflow
\* failure of from_str is not reached.
ParseInt(lex) ==
  LET neg == lex[1] = "-"
      p0 == IF lex[1] \in {"+", "-"} THEN 2 ELSE 1
      mag == DigitsVal(SubSeq(lex, p0, Len(lex)), 0)
  IN  IF neg THEN 0 - mag ELSE mag

\* ------------------------------------------------------------------------
\* Named parsers as steps
\* ------------------------------------------------------------------------
\* call(name, s, p) runs the parser of that name; it is defined after the
\* parsers it dispatches to.
RECURSIVE call(_, _, _)

\* A named parser as a step, and as a step inside ws! (sp first).
do(name, s, r) == IF r.t # "Done" THEN r ELSE keep(r, call(name, s, r.p))

do_ws(name, s, r) ==
  IF r.t # "Done" THEN r ELSE keep(r, call(name, s, sp(s, r.p)))

\* ------------------------------------------------------------------------
\* Repetition
\* ------------------------------------------------------------------------
\* The element of a repetition; inside a ws! (w) it is preceded by sp:
\* many1!(wrap_sep!(sp, ..)).
item(kind, s, p, w) == call(kind, s, IF w THEN sp(s, p) ELSE p)

RECURSIVE many0(_, _, _, _)

\* many0! failing when its element fails.
many0_next_failing(kind, s, p, acc, r) ==
  CASE r.t = "Error" -> Err
    [] r.t = "Done" ->
         IF r.p = p THEN Err ELSE many0(kind, s, r.p, Append(acc, r.v))
    [] OTHER -> r

\* many0!, on the result r of its element at p: an Error ends the
\* repetition with Done, an element that consumed nothing is an Error.
many0_next(kind, s, p, acc, r) ==
  CASE r.t = "Error" -> Done(p, acc)
    [] r.t = "Done" ->
         IF r.p = p THEN Err ELSE many0(kind, s, r.p, Append(acc, r.v))
    [] OTHER -> r

\* many0!: Done at the end of the input.
many0(kind, s, p, acc) ==
  IF p > Len(s) THEN Done(p, acc)
  ELSE many0_next(kind, s, p, acc, item(kind, s, p, FALSE))

RECURSIVE many1_loop(_, _, _, _, _)

\* The loop of many1! putting each new output before the earlier ones.
many1_next_prepending(kind, s, p, w, acc, r) ==
  CASE r.t = "Error" -> Done(p, acc)
    [] r.t = "Done" ->
         IF r.p = p THEN Done(p, acc)
         ELSE many1_loop(kind, s, r.p, w, <<r.v>> \o acc)
    [] OTHER -> r

\* The loop of many1!, on the result r of its element at p: an Error, or
\* an element that consumed nothing, ends the repetition with Done.
many1_next(kind, s, p, w, acc, r) ==
  CASE r.t = "Error" -> Done(p, acc)
    [] r.t = "Done" ->
         IF r.p = p THEN Done(p, acc)
         ELSE many1_loop(kind, s, r.p, w, Append(acc, r.v))
    [] OTHER -> r

many1_loop(kind, s, p, w, acc) ==
  IF p > Len(s) THEN Done(p, acc)
  ELSE many1_next(kind, s, p, w, acc, item(kind, s, p, w))

\* many1!, on the result r of its first element, which must succeed.
many1_first(kind, s, w, r) ==
  CASE r.t = "Error" -> Err
    [] r.t = "Done" ->
         IF r.p > Len(s) THEN Done(r.p, <<r.v>>)
         ELSE many1_loop(kind, s, r.p, w, <<r.v>>)
    [] OTHER -> r

many1(kind, s, p, w) == many1_first(kind, s, w, item(kind, s, p, w))

\* many1!(kind) as a step inside ws!.
do_many1(kind, s, r) ==
  IF r.t # "Done" THEN r ELSE keep(r, many1(kind, s, r.p, TRUE))

\* ------------------------------------------------------------------------
\* Primitive literal recognizers
\* ------------------------------------------------------------------------
\* quoted_name: delimited!(tag!("\""), alphanumeric, tag!("\"")), then
\* str::from_utf8 (the identity on the ASCII bytes alphanumeric accepts).
\* A variant of quoted_name that takes any text up to the next quote.
quoted_name_any_text(s, p) ==
  IF tag(s, p, <<QUOTE>>).t # "Done" THEN tag(s, p, <<QUOTE>>)
  ELSE only(do_tag(s, keep(Start(p + 1), take_until(s, p + 1, QUOTE)),
                   <<QUOTE>>))

quoted_name(s, p) ==
  only(do_tag(s, do("alphanumeric", s, do_tag(s, Start(p), <<QUOTE>>)),
              <<QUOTE>>))

\* parse_to!(bool) on the recognized tag.
parse_to_bool(r) ==
  IF r.t # "Done" THEN r ELSE Done(r.p, r.v = <<"t", "r", "u", "e">>)

\* bool: recognize!(alt!(tag!("true") | tag!("false"))), parse_to!(bool).
bool(s, p) ==
  parse_to_bool(alt2(tag(s, p, <<"t", "r", "u", "e">>),
                     tag(s, p, <<"f", "a", "l", "s", "e">>)))

\* opt!(alt!(tag!("+") | tag!("-")))
opt_sign(s, p) == opt(alt2(tag(s, p, <<"+">>), tag(s, p, <<"-">>)), p)

\* digit after the result r of the parser before it.
then_digit(s, r) == IF r.t # "Done" THEN r ELSE digit(s, r.p)

\* tag!(".") after the result r of the parser before it.
then_dot(s, r) == IF r.t # "Done" THEN r ELSE tag(s, r.p, <<".">>)

\* complete!(delimited!(opt!(digit), tag!("."), digit))
mantissa_frac(s, p) ==
  complete(then_digit(s, then_dot(s, opt(digit(s, p), p))))

\* The digits-and-dot alternative never matching.
mantissa_dot_never(s, p) == Err

\* complete!(preceded!(digit, tag!(".")))
mantissa_dot(s, p) == complete(then_dot(s, digit(s, p)))

\* alt!(complete!(delimited!(..)) | complete!(preceded!(..)) | digit)
mantissa(s, p) ==
  alt2(mantissa_frac(s, p), alt2(mantissa_dot(s, p), digit(s, p)))

then_opt_sign(s, r) == IF r.t # "Done" THEN r ELSE opt_sign(s, r.p)

\* opt!(complete!(tuple!(alt!(tag!("e") | tag!("E")),
\*                       opt!(alt!(tag!("+") | tag!("-"))), digit)))
opt_exponent(s, p) ==
  opt(complete(then_digit(s, then_opt_sign(s,
        alt2(tag(s, p, <<"e">>), tag(s, p, <<"E">>))))), p)

then_mantissa(s, r) == IF r.t # "Done" THEN r ELSE mantissa(s, r.p)

then_opt_exponent(s, r) == IF r.t # "Done" THEN r ELSE opt_exponent(s, r.p)

\* parse_to!(Float) on the bytes recognize! covered, from p to r.p.
parse_to_Float(s, p, r) ==
  IF r.t # "Done" THEN r ELSE Done(r.p, ParseFloat(SubSeq(s, p, r.p - 1)))

\* number: recognize!(tuple!(sign, mantissa, exponent)), parse_to!(Float).
number(s, p) ==
  parse_to_Float(s, p,
    then_opt_exponent(s, then_mantissa(s, opt_sign(s, p))))

then_complete_digit(s, r) ==
  IF r.t # "Done" THEN r ELSE complete(digit(s, r.p))

\* parse_to!(i64) on the bytes recognize! covered, from p to r.p.
parse_to_i64(s, p, r) ==
  IF r.t # "Done" THEN r ELSE Done(r.p, ParseInt(SubSeq(s, p, r.p - 1)))

\* integer: recognize!(tuple!(opt!(sign), complete!(digit))),
\* parse_to!(i64).
integer(s, p) == parse_to_i64(s, p, then_complete_digit(s, opt_sign(s, p)))

then_take_until_quote(s, r) ==
  IF r.t # "Done" THEN r ELSE keep(r, take_until(s, r.p, QUOTE))

\* map_res!(.., str::from_utf8): an Error for bytes that are not UTF-8,
\* else the bytes themselves.
from_utf8(r) ==
  IF r.t = "Done" /\ \E i \in 1..Len(r.v) : r.v[i] \in NonUtf8 THEN Err ELSE r

\* ascii: delimited!(tag!("\""), take_until!("\""), tag!("\"")), then
\* from_utf8 and String::from_str (the identity on a str).
ascii(s, p) ==
  from_utf8(only(do_tag(s, then_take_until_quote(s,
                   do_tag(s, Start(p), <<QUOTE>>)), <<QUOTE>>)))

\* ------------------------------------------------------------------------
\* Parameter values
\* ------------------------------------------------------------------------
Value(variant, list) == [variant |-> variant, list |-> list]

\* Wraps the list of a Done in a Value of the variant.
AsValue(variant, r) ==
  IF r.t = "Done" THEN Done(r.p, Value(variant, r.v)) ELSE r

\* ws!(delimited!(tag!("["), many1!(kind), tag!("]"))): sp before each of
\* "[", every element and "]", and sp after the whole.
ws_bracketed(kind, s, p) ==
  ws_end(s, only(do_ws_tag(s, do_many1(kind, s,
                   do_ws_tag(s, Start(p), <<"[">>)), <<"]">>)))

\* A variant of ws!(many1!(kind)) that stops after its first element.
ws_many1_single(kind, s, p) ==
  ws_end(s, IF item(kind, s, p, TRUE).t = "Done"
            THEN Done(item(kind, s, p, TRUE).p, <<item(kind, s, p, TRUE).v>>)
            ELSE item(kind, s, p, TRUE))

\* ws!(many1!(kind)): sp before every element and after the whole.
ws_many1(kind, s, p) == ws_end(s, many1(kind, s, p, TRUE))

\* alt!(ws!(delimited!(...)) | ws!(many1!(kind)))
values_alt(kind, s, p) == alt2(ws_bracketed(kind, s, p), ws_many1(kind, s, p))

param_set_item_values_bool(s, p) ==
  AsValue("Bool", values_alt("bool", s, p))

Point3f(r) ==
  IF r.t = "Done" THEN Done(r.p, [x |-> r.v[1], y |-> r.v[2], z |-> r.v[3]])
  ELSE r

\* parse_point3f: ws!(do_parse!(x: number >> y: number >> z: number >> ..))
parse_point3f(s, p) ==
  ws_end(s, Point3f(do_ws("number", s, do_ws("number", s,
                      do_ws("number", s, Start(p))))))

\* The point values with the bare alternative the other value parsers have.
param_set_item_values_point_or_bare(s, p) ==
  AsValue("Point3f", values_alt("parse_point3f", s, p))

\* param_set_item_values_point:
\* ws!(do_parse!(tag!("[") >> points: many1!(parse_point3f) >> tag!("]") >> ..))
param_set_item_values_point(s, p) ==
  AsValue("Point3f",
    ws_end(s, only(do_ws_tag(s, do_many1("parse_point3f", s,
                     do_ws_tag(s, Start(p), <<"[">>)), <<"]">>))))

param_set_item_values_float(s, p) ==
  AsValue("Float", values_alt("number", s, p))

\* The rgb values under the variant of plain floats.
param_set_item_values_rgb_as_float(s, p) ==
  AsValue("Float", values_alt("number", s, p))

param_set_item_values_rgb(s, p) ==
  AsValue("RGB", values_alt("number", s, p))

param_set_item_values_blackbody(s, p) ==
  AsValue("Blackbody", values_alt("number", s, p))

param_set_item_values_integer(s, p) ==
  AsValue("Int", values_alt("integer", s, p))

\* vec![value]
vec1(r) == IF r.t = "Done" THEN Done(r.p, <<r.v>>) ELSE r

\* ws!(ascii) with the string left unwrapped.
ws_ascii1_unwrapped(s, p) == ws_end(s, ascii(s, sp(s, p)))

\* ws!(ascii), the bare alternative of string and texture: one string,
\* wrapped in a one-element list.
ws_ascii1(s, p) == vec1(ws_end(s, ascii(s, sp(s, p))))

param_set_item_values_string(s, p) ==
  AsValue("String", alt2(ws_bracketed("ascii", s, p), ws_ascii1(s, p)))

param_set_item_values_texture(s, p) ==
  AsValue("Texture", alt2(ws_bracketed("ascii", s, p), ws_ascii1(s, p)))

\* The type tags param_set_item_values matches on.
tyBool == <<"b", "o", "o", "l">>
tyFloat == <<"f", "l", "o", "a", "t">>
tyInteger == <<"i", "n", "t", "e", "g", "e", "r">>
tyString == <<"s", "t", "r", "i", "n", "g">>
tyPoint == <<"p", "o", "i", "n", "t">>
tyRgb == <<"r", "g", "b">>
tyTexture == <<"t", "e", "x", "t", "u", "r", "e">>
tyBlackbody == <<"b", "l", "a", "c", "k", "b", "o", "d", "y">>

\* param_set_item_values: any other tag reaches panic!.
param_set_item_values(s, p, psi_type) ==
  CASE psi_type = tyBool -> param_set_item_values_bool(s, p)
    [] psi_type = tyFloat -> param_set_item_values_float(s, p)
    [] psi_type = tyInteger -> param_set_item_values_integer(s, p)
    [] psi_type = tyString -> param_set_item_values_string(s, p)
    [] psi_type = tyPoint -> param_set_item_values_point(s, p)
    [] psi_type = tyRgb -> param_set_item_values_rgb(s, p)
    [] psi_type = tyTexture -> param_set_item_values_texture(s, p)
    [] psi_type = tyBlackbody -> param_set_item_values_blackbody(s, p)
    [] OTHER -> Panic

\* call!(param_set_item_values, typ) as a step: typ is the first output
\* the chain kept.
do_values(s, r) ==
  IF r.t # "Done" THEN r
  ELSE keep(r, param_set_item_values(s, r.p, r.v[1]))

\* ParamSetItem::new(name, values)
ParamSetItem(r) ==
  IF r.t = "Done" THEN Done(r.p, [name |-> r.v[2], values |-> r.v[3]])
  ELSE r

\* The outputs kept so far, less the last.
unkeep(r) ==
  IF r.t = "Done" THEN Done(r.p, SubSeq(r.v, 1, Len(r.v) - 1)) ELSE r

\* A variant of param_set_item that gives an item without values, and
\* takes nothing, where no quote opens an item.
param_set_item_or_nothing(s, p) ==
  IF tag(s, p, <<QUOTE>>).t = "Done" THEN Err
  ELSE Done(p, [name |-> <<>>, values |-> Value("Bool", <<>>)])

\* param_set_item: "\"" typ space name "\"" values, with no ws! of its
\* own: only the value parsers skip separators.
param_set_item(s, p) ==
  ParamSetItem(do_values(s, do_tag(s, do("alphanumeric", s,
    unkeep(do("space", s, do("alphanumeric", s,
      do_tag(s, Start(p), <<QUOTE>>))))), <<QUOTE>>)))

\* param_set: many0!(param_set_item)
param_set(s, p) == many0("param_set_item", s, p, <<>>)

\* ------------------------------------------------------------------------
\* Directives
\* ------------------------------------------------------------------------
kwLookAt ==
  <<"L", "o", "o", "k", "A", "t">>
kwCamera ==
  <<"C", "a", "m", "e", "r", "a">>
kwSampler ==
  <<"S", "a", "m", "p", "l", "e", "r">>
kwIntegrator ==
  <<"I", "n", "t", "e", "g", "r", "a", "t", "o", "r">>
kwFilm ==
  <<"F", "i", "l", "m">>
kwWorldBegin ==
  <<"W", "o", "r", "l", "d", "B", "e", "g", "i", "n">>
kwWorldEnd ==
  <<"W", "o", "r", "l", "d", "E", "n", "d">>
kwAttributeBegin ==
  <<"A", "t", "t", "r", "i", "b", "u", "t", "e", "B", "e", "g", "i", "n">>
kwAttributeEnd ==
  <<"A", "t", "t", "r", "i", "b", "u", "t", "e", "E", "n", "d">>
kwLightSource ==
  <<"L", "i", "g", "h", "t", "S", "o", "u", "r", "c", "e">>
kwMaterial ==
  <<"M", "a", "t", "e", "r", "i", "a", "l">>
kwShape ==
  <<"S", "h", "a", "p", "e">>
kwTranslate ==
  <<"T", "r", "a", "n", "s", "l", "a", "t", "e">>
kwTexture ==
  <<"T", "e", "x", "t", "u", "r", "e">>

\* The directive a chain's outputs make: name and parameter set.
Named(kind, r) ==
  IF r.t = "Done"
  THEN Done(r.p, [kind |-> kind, name |-> r.v[1], ps |-> r.v[2]])
  ELSE r

\* ws!(do_parse!(tag!(kw) >> name: quoted_name >> ps: param_set >> ..)),
\* the shape shared by camera, sampler, integrator, film, light_source,
\* material and shape.
named_directive(s, p, kw, kind) ==
  ws_end(s, Named(kind, do_ws("param_set", s, do_ws("quoted_name", s,
                          do_ws_tag(s, Start(p), kw)))))

\* The directive a chain's outputs make: the numbers.
Floats(kind, r) ==
  IF r.t = "Done" THEN Done(r.p, [kind |-> kind, f |-> r.v]) ELSE r

\* Three numbers as steps inside ws!.
do_number3(s, r) ==
  do_ws("number", s, do_ws("number", s, do_ws("number", s, r)))

look_at(s, p) ==
  ws_end(s, Floats("LookAt",
    do_number3(s, do_number3(s, do_number3(s, do_ws_tag(s, Start(p), kwLookAt))))))

camera(s, p) == named_directive(s, p, kwCamera, "Camera")

sampler(s, p) == named_directive(s, p, kwSampler, "Sampler")

integrator(s, p) == named_directive(s, p, kwIntegrator, "Integrator")

film(s, p) == named_directive(s, p, kwFilm, "Film")

\* alt!(film | look_at | camera | sampler | integrator)
option_alt(s, p) ==
  alt2(film(s, p), alt2(look_at(s, p), alt2(camera(s, p),
       alt2(sampler(s, p), integrator(s, p)))))

\* option_block: dbg_dmp!(many1!(alt!(..))); dbg_dmp! only prints.
option_block(s, p) == many1("option_alt", s, p, FALSE)

\* world_objects: many1!(alt!(..))
world_objects(s, p) == many1("world_alt", s, p, FALSE)

\* An Attribute holding only the first block of its scope.
Attribute_first_block(r) ==
  IF r.t = "Done"
  THEN Done(r.p, [kind |-> "Attribute", blocks |-> <<r.v[1][1]>>])
  ELSE r

Attribute(r) ==
  IF r.t = "Done" THEN Done(r.p, [kind |-> "Attribute", blocks |-> r.v[1]])
  ELSE r

\* attribute: ws!(do_parse!(tag!("AttributeBegin") >>
\*   world_objects: world_objects >> tag!("AttributeEnd") >> ..))
attribute(s, p) ==
  ws_end(s, Attribute(do_ws_tag(s, do_ws("world_objects", s,
              do_ws_tag(s, Start(p), kwAttributeBegin)), kwAttributeEnd)))

\* Where attribute enters world_objects: behind tag!("AttributeBegin").
attribute_begin(s, p) == do_ws_tag(s, Start(p), kwAttributeBegin)

light_source(s, p) == named_directive(s, p, kwLightSource, "LightSource")

material(s, p) == named_directive(s, p, kwMaterial, "Material")

shape(s, p) == named_directive(s, p, kwShape, "Shape")

translate(s, p) ==
  ws_end(s, Floats("Translate",
    do_number3(s, do_ws_tag(s, Start(p), kwTranslate))))

Texture(r) ==
  IF r.t = "Done"
  THEN Done(r.p, [kind |-> "Texture", name |-> r.v[1], typ |-> r.v[2],
                  class |-> r.v[3], ps |-> r.v[4]])
  ELSE r

texture(s, p) ==
  ws_end(s, Texture(do_ws("param_set", s, do_ws("quoted_name", s,
    do_ws("quoted_name", s, do_ws("quoted_name", s,
      do_ws_tag(s, Start(p), kwTexture)))))))

\* alt!(shape | texture | material | attribute | translate | light_source)
world_alt(s, p) ==
  alt2(shape(s, p), alt2(texture(s, p), alt2(material(s, p),
       alt2(attribute(s, p), alt2(translate(s, p), light_source(s, p))))))

\* The parsers that steps and repetitions name.
call(name, s, p) ==
  CASE name = "alphanumeric" -> alphanumeric(s, p)
    [] name = "space" -> space(s, p)
    [] name = "bool" -> bool(s, p)
    [] name = "number" -> number(s, p)
    [] name = "integer" -> integer(s, p)
    [] name = "ascii" -> ascii(s, p)
    [] name = "quoted_name" -> quoted_name(s, p)
    [] name = "parse_point3f" -> parse_point3f(s, p)
    [] name = "param_set_item" -> param_set_item(s, p)
    [] name = "param_set" -> param_set(s, p)
    [] name = "option_alt" -> option_alt(s, p)
    [] name = "option_block" -> option_block(s, p)
    [] name = "world_alt" -> world_alt(s, p)
    [] name = "world_objects" -> world_objects(s, p)

\* ------------------------------------------------------------------------
\* Scene
\* ------------------------------------------------------------------------
\* strip_comment: Regex "#.*\n" replaced by "\n", leftmost matches first.
\* The Regex is in Unicode mode, where "." matches one UTF-8 encoded
\* character other than "\n": a match runs from a "#" to the first newline
\* after it, and a "#" matches nothing when the input ends, or a byte that
\* is not UTF-8 comes, before a newline does.
stops(s, p) == {i \in p..Len(s) : s[i] = "\n" \/ s[i] \in NonUtf8}

\* The first position at or after p that ends a run of ".", 0 if none.
first_stop(s, p) ==
  IF stops(s, p) = {} THEN 0
  ELSE CHOOSE i \in stops(s, p) : \A j \in stops(s, p) : i <= j

RECURSIVE strip_from(_, _)

\* The text from p on, with h the first "#" at or after p (0 if none)
\* and n the first newline or non-UTF-8 byte after that "#" (0 if none).
strip_match(s, p, h, n) ==
  IF h = 0 \/ n = 0 THEN SubSeq(s, p, Len(s))
  ELSE IF s[n] = "\n"
       THEN SubSeq(s, p, h - 1) \o <<"\n">> \o strip_from(s, n + 1)
       ELSE SubSeq(s, p, n) \o strip_from(s, n + 1)

strip_from(s, p) ==
  strip_match(s, p, find(s, p, "#"),
              IF find(s, p, "#") = 0 THEN 0
              ELSE first_stop(s, find(s, p, "#")))

strip_comment(s) == Done(Len(s) + 1, strip_from(s, 1))

Scene(r) ==
  IF r.t = "Done"
  THEN Done(r.p, [options |-> r.v[1], world_objects |-> r.v[2]])
  ELSE r

\* parse_scene_macro: ws!(do_parse!(options: option_block >>
\*   tag!("WorldBegin") >> world_objects: world_objects >>
\*   tag!("WorldEnd") >> (Scene{options, world_objects})))
parse_scene_macro(s, p) ==
  ws_end(s, Scene(do_ws_tag(s, do_ws("world_objects", s,
    do_ws_tag(s, do_ws("option_block", s, Start(p)), kwWorldBegin)),
    kwWorldEnd)))

\* What parse_scene makes of the IResult of parse_scene_macro: the
\* remaining input of a Done is dropped.
SceneResult(r) ==
  CASE r.t = "Done" -> [t |-> "Ok", scene |-> r.v]
    [] r.t = "Error" -> [t |-> "Err", e |-> "NomError"]
    [] r.t = "Incomplete" -> [t |-> "Err", e |-> "NomIncomplete"]
    [] OTHER -> r

\* parse_scene: strip_comment always returns Done.
parse_scene(s) == SceneResult(parse_scene_macro(strip_comment(s).v, 1))

\* ------------------------------------------------------------------------
\* Inputs
\* ------------------------------------------------------------------------
\* The sequences over S of length at most n.
SeqsUpTo(S, n) == UNION {[1..k -> S] : k \in 0..n}

\* The texts joined, sep between neighbours.
RECURSIVE Join(_, _)
Join(texts, sep) ==
  IF texts = <<>> THEN <<>>
  ELSE IF Len(texts) = 1 THEN texts[1]
       ELSE texts[1] \o sep \o Join(Tail(texts), sep)

\* A tag param_set_item_values does not match on.
tyVector == <<"v", "e", "c", "t", "o", "r">>

KnownTags ==
  {tyBool, tyFloat, tyInteger, tyString, tyPoint, tyRgb, tyTexture,
   tyBlackbody}

\* Literals of each kind, as they are written in a scene file.
IntegerLits == {<<"1">>, <<"-", "3">>}

NumberLits == IntegerLits \cup {<<"2", ".">>, <<".", "5">>}

BoolLits == {<<"t", "r", "u", "e">>, <<"f", "a", "l", "s", "e">>}

StringLits == {<<"\"", "f", "o", "o", "\"">>, <<"\"", "a", ".", "b", "\"">>}

Lits == NumberLits \cup BoolLits \cup StringLits

RunLits == {<<"1">>, <<".", "5">>}

\* Value lists: short ones of any literals, longer ones of numbers.
LitRuns == SeqsUpTo(Lits, MaxLits) \cup SeqsUpTo(RunLits, MaxRun)

\* What may follow a parameter item: the end of the input, or the next
\* directive.
Tails == {<<>>, <<" ">> \o kwWorldEnd}

\* "typ n" and the values after it.
Item(typ, values) == <<QUOTE>> \o typ \o <<" ", "n", QUOTE, " ">> \o values

Bracketed(text) == <<"[">> \o text \o <<"]">>

\* ------------------------------------------------------------------------
\* Parameter items: one item, its values written bare and in brackets
\* ------------------------------------------------------------------------
ValueInit ==
  /\ src \in [tag : KnownTags \cup {tyVector}, lits : LitRuns, tail : Tails]
  /\ input = Join(src.lits, <<" ">>)
  /\ buf = <<>>
  /\ out = None
  /\ out2 = None
  /\ pc = "item"

ParseBracketed ==
  /\ pc = "item"
  /\ out = None
  /\ out' = param_set_item(Item(src.tag, Bracketed(input)) \o src.tail, 1)
  /\ UNCHANGED <<src, input, buf, out2, pc>>

ParseBare ==
  /\ pc = "item"
  /\ out2 = None
  /\ out2' = param_set_item(Item(src.tag, input) \o src.tail, 1)
  /\ UNCHANGED <<src, input, buf, out, pc>>

ValueNext == ParseBracketed \/ ParseBare

SpecValue == ValueInit /\ [][ValueNext]_vars

\* ------------------------------------------------------------------------
\* Scenes
\* ------------------------------------------------------------------------
\* The text of each directive the scenes are written with. FilmVector and
\* ShapeVector carry a parameter item of the type vector.
TokenText(name) ==
  CASE name = "Film" ->
         <<"F", "i", "l", "m", " ", "\"", "a", "\"">>
    [] name = "LookAt" ->
         <<"L", "o", "o", "k", "A", "t", " ", "1", " ", "2", " ", "3", " ", "4", " ", "5", " ", "6", " ", "7", " ", "8", " ", "9">>
    [] name = "Camera" ->
         <<"C", "a", "m", "e", "r", "a", " ", "\"", "c", "\"", " ", "\"", "b", "o", "o", "l", " ", "b", "\"", " ", "t", "r", "u", "e">>
    [] name = "Sampler" ->
         <<"S", "a", "m", "p", "l", "e", "r", " ", "\"", "h", "\"">>
    [] name = "Integrator" ->
         <<"I", "n", "t", "e", "g", "r", "a", "t", "o", "r", " ", "\"", "p", "\"">>
    [] name = "FilmVector" ->
         <<"F", "i", "l", "m", " ", "\"", "a", "\"", " ", "\"", "v", "e", "c", "t", "o", "r", " ", "v", "\"", " ", "1">>
    [] name = "AttributeBegin" ->
         <<"A", "t", "t", "r", "i", "b", "u", "t", "e", "B", "e", "g", "i", "n">>
    [] name = "AttributeEnd" ->
         <<"A", "t", "t", "r", "i", "b", "u", "t", "e", "E", "n", "d">>
    [] name = "Shape" ->
         <<"S", "h", "a", "p", "e", " ", "\"", "s", "\"">>
    [] name = "Material" ->
         <<"M", "a", "t", "e", "r", "i", "a", "l", " ", "\"", "m", "\"">>
    [] name = "Translate" ->
         <<"T", "r", "a", "n", "s", "l", "a", "t", "e", " ", "1", " ", "2", " ", "3">>
    [] name = "LightSource" ->
         <<"L", "i", "g", "h", "t", "S", "o", "u", "r", "c", "e", " ", "\"", "l", "\"">>
    [] name = "Texture" ->
         <<"T", "e", "x", "t", "u", "r", "e", " ", "\"", "a", "\"", " ", "\"", "b", "\"", " ", "\"", "c", "\"">>
    [] name = "ShapeVector" ->
         <<"S", "h", "a", "p", "e", " ", "\"", "s", "\"", " ", "\"", "v", "e", "c", "t", "o", "r", " ", "v", "\"", " ", "1">>
    [] name = "WorldBegin" ->
         <<"W", "o", "r", "l", "d", "B", "e", "g", "i", "n">>
    [] name = "WorldEnd" ->
         <<"W", "o", "r", "l", "d", "E", "n", "d">>

OptTokens ==
  {"Film", "LookAt", "Camera", "Sampler", "Integrator", "FilmVector"}

CoreWorldTokens == {"AttributeBegin", "AttributeEnd", "Shape", "Material"}

WorldTokens ==
  CoreWorldTokens \cup {"Translate", "LightSource", "Texture", "ShapeVector"}

\* What follows WorldEnd (or, without WorldEnd, the last world block):
\* nothing, a comment line, or one more directive.
Trails == {"none", "comment", "shape"}

TrailText(trail) ==
  CASE trail = "none" -> <<>>
    [] trail = "comment" -> <<" ", "#", " ", "x", "\n">>
    [] trail = "shape" -> <<" ">> \o TokenText("Shape")

\* A scene description: the directives before WorldBegin, whether
\* WorldBegin is written, the directives after it, whether WorldEnd is
\* written, and what follows.
SceneSrc(opts, wb, world, we, trail) ==
  [opts |-> opts, wb |-> wb, world |-> world, we |-> we, trail |-> trail]

\* The directive names of a scene description, in the order written.
SceneTokens(d) ==
  d.opts \o (IF d.wb THEN <<"WorldBegin">> ELSE <<>>) \o d.world
         \o (IF d.we THEN <<"WorldEnd">> ELSE <<>>)

\* The bytes of a scene description.
SceneText(d) ==
  Join([i \in 1..Len(SceneTokens(d)) |-> TokenText(SceneTokens(d)[i])],
       <<" ">>) \o TrailText(d.trail)

\* Scenes that vary the options, the world section, and the structure.
OptScenes ==
  {SceneSrc(o, wb, <<"Shape">>, TRUE, "none") :
     o \in SeqsUpTo(OptTokens, MaxOpts), wb \in BOOLEAN}

WorldScenes ==
  {SceneSrc(<<"Film">>, TRUE, w, TRUE, "none") :
     w \in SeqsUpTo(CoreWorldTokens, MaxWorld)}

MixedScenes ==
  {SceneSrc(<<"Film">>, TRUE, w, we, tr) :
     w \in SeqsUpTo(WorldTokens, MaxMixed), we \in BOOLEAN, tr \in Trails}

Init ==
  /\ src \in OptScenes \cup WorldScenes \cup MixedScenes
  /\ input = SceneText(src)
  /\ buf = <<>>
  /\ out = None
  /\ out2 = None
  /\ pc = "start"

\* parse_scene: the input is stripped of its comments, the stripped text
\* is parsed, and the result is returned.
ParseScene ==
  /\ pc = "start"
  /\ buf' = strip_comment(input).v
  /\ out' = parse_scene(input)
  /\ pc' = "done"
  /\ UNCHANGED <<src, input, out2>>

Next == ParseScene

Spec == Init /\ [][Next]_vars

\* ------------------------------------------------------------------------
\* Properties of parameter items (SpecValue)
\* ------------------------------------------------------------------------
\* The literals that are values of a type tag.
TypeLits(typ) ==
  CASE typ = tyBool -> BoolLits
    [] typ \in {tyFloat, tyRgb, tyBlackbody} -> NumberLits
    [] typ = tyInteger -> IntegerLits
    [] typ \in {tyString, tyTexture} -> StringLits
    [] OTHER -> {}

\* The variant each type tag stands for.
VariantOf(typ) ==
  CASE typ = tyBool -> "Bool"
    [] typ = tyFloat -> "Float"
    [] typ = tyInteger -> "Int"
    [] typ = tyString -> "String"
    [] typ = tyPoint -> "Point3f"
    [] typ = tyRgb -> "RGB"
    [] typ = tyTexture -> "Texture"
    [] typ = tyBlackbody -> "Blackbody"

\* The value a literal of a type tag denotes.
LitValue(typ, lit) ==
  CASE typ = tyBool -> (lit = <<"t", "r", "u", "e">>)
    [] typ \in {tyFloat, tyRgb, tyBlackbody} -> ParseFloat(lit)
    [] typ = tyInteger -> ParseInt(lit)
    [] typ \in {tyString, tyTexture} -> SubSeq(lit, 2, Len(lit) - 1)

\* C8: for the tags bool, float, integer, string, texture, rgb and
\* blackbody and a single literal v of the tag's type, the item written
\* with the bare v and the item written with [v] both parse, to the same
\* Value: the tag's variant holding the one-element list of v.
C8_BareEqualsBracketed ==
  (/\ pc = "item"
   /\ Len(src.lits) = 1
   /\ src.lits[1] \in TypeLits(src.tag)
   /\ out # None
   /\ out2 # None)
  => /\ out.t = "Done"
     /\ out2.t = "Done"
     /\ out2.v.values = out.v.values
     /\ out.v.values =
          Value(VariantOf(src.tag), <<LitValue(src.tag, src.lits[1])>>)

\* A bare string and the same string in brackets have both been parsed.
C8_Witness ==
  /\ pc = "item"
  /\ src.tag = tyString
  /\ Len(src.lits) = 1
  /\ src.lits[1] \in StringLits
  /\ out.t = "Done"
  /\ out2.t = "Done"

FloatTags == {tyFloat, tyRgb, tyBlackbody}

\* C9: the variant of a parsed Value is the one its type tag stands for,
\* and a run of floats parsed under float, rgb and blackbody gives three
\* different Values holding the same list.
C9_VariantByTag ==
  pc = "item" =>
    /\ out.t = "Done" => out.v.values.variant = VariantOf(src.tag)
    /\ out2.t = "Done" => out2.v.values.variant = VariantOf(src.tag)
    /\ (out.t = "Done" /\ src.tag \in FloatTags) =>
         \A typ \in FloatTags \ {src.tag} :
           /\ param_set_item_values(Bracketed(input), 1, typ).t = "Done"
           /\ param_set_item_values(Bracketed(input), 1, typ).v
                # out.v.values
           /\ param_set_item_values(Bracketed(input), 1, typ).v.list
                = out.v.values.list

\* A run of three floats has been parsed under rgb.
C9_Witness ==
  /\ pc = "item"
  /\ src.tag = tyRgb
  /\ Len(src.lits) = 3
  /\ out.t = "Done"

\* The Point3f records of consecutive triples of number literals.
Triples(lits) ==
  [i \in 1..(Len(lits) \div 3) |->
     [x |-> ParseFloat(lits[3 * i - 2]),
      y |-> ParseFloat(lits[3 * i - 1]),
      z |-> ParseFloat(lits[3 * i])]]

\* C10: under the tag point, a bracketed list parses exactly when it is a
\* run of 3k numbers with k >= 1, and then gives the k Point3f of its
\* consecutive triples in order; a list without brackets never parses.
C10_PointTriples ==
  (pc = "item" /\ src.tag = tyPoint) =>
    /\ out # None =>
         (out.t = "Done" <=>
            /\ Len(src.lits) >= 3
            /\ Len(src.lits) % 3 = 0
            /\ \A i \in 1..Len(src.lits) : src.lits[i] \in NumberLits)
    /\ out.t = "Done" => out.v.values = Value("Point3f", Triples(src.lits))
    /\ out2.t # "Done"

\* Two points have been parsed from six bracketed numbers, and the same
\* six numbers without brackets have been rejected.
C10_Witness ==
  /\ pc = "item"
  /\ src.tag = tyPoint
  /\ Len(src.lits) = 6
  /\ out.t = "Done"
  /\ Len(out.v.values.list) = 2
  /\ out2.t = "Error"

\* The Floats a run of number literals denotes, in source order.
FloatsOf(lits) == [i \in 1..Len(lits) |-> ParseFloat(lits[i])]

\* C16: under the tag float, a run of one or more numbers written without
\* brackets and separated by whitespace is accepted as a whole and gives
\* the Float list of all its numbers in source order.
C16_BareFloatRun ==
  (/\ pc = "item"
   /\ src.tag = tyFloat
   /\ Len(src.lits) >= 1
   /\ \A i \in 1..Len(src.lits) : src.lits[i] \in NumberLits
   /\ out2 # None)
  => /\ out2.t = "Done"
     /\ out2.p > Len(Item(src.tag, input))
     /\ out2.v.values = Value("Float", FloatsOf(src.lits))

\* A bare run of more than two numbers, not all alike, has been parsed.
C16_Witness ==
  /\ pc = "item"
  /\ src.tag = tyFloat
  /\ src.lits = <<<<"1">>, <<".", "5">>, <<"1">>, <<"1">>>>
  /\ out2.t = "Done"
  /\ Len(out2.v.values.list) = 4

\* ------------------------------------------------------------------------
\* Properties of scenes (Spec)
\* ------------------------------------------------------------------------
\* The block each directive of the scenes denotes.
NodeOf(name) ==
  CASE name = "Film" -> [kind |-> "Film", name |-> <<"a">>, ps |-> <<>>]
    [] name = "LookAt" ->
         [kind |-> "LookAt", f |-> [i \in 1..9 |-> <<i, 0>>]]
    [] name = "Camera" ->
         [kind |-> "Camera", name |-> <<"c">>,
          ps |-> <<[name |-> <<"b">>, values |-> Value("Bool", <<TRUE>>)]>>]
    [] name = "Sampler" -> [kind |-> "Sampler", name |-> <<"h">>, ps |-> <<>>]
    [] name = "Integrator" ->
         [kind |-> "Integrator", name |-> <<"p">>, ps |-> <<>>]
    [] name = "Shape" -> [kind |-> "Shape", name |-> <<"s">>, ps |-> <<>>]
    [] name = "Material" ->
         [kind |-> "Material", name |-> <<"m">>, ps |-> <<>>]
    [] name = "Translate" ->
         [kind |-> "Translate", f |-> [i \in 1..3 |-> <<i, 0>>]]
    [] name = "LightSource" ->
         [kind |-> "LightSource", name |-> <<"l">>, ps |-> <<>>]
    [] name = "Texture" ->
         [kind |-> "Texture", name |-> <<"a">>, typ |-> <<"b">>,
          class |-> <<"c">>, ps |-> <<>>]

VectorTokens == {"FilmVector", "ShapeVector"}

\* The directives after WorldBegin: without WorldEnd, a directive that
\* follows belongs to them.
WorldSection(d) ==
  d.world \o (IF ~d.we /\ d.trail = "shape" THEN <<"Shape">> ELSE <<>>)

\* The lists of blocks of the open scopes, innermost last, after a block
\* is added to the innermost scope.
Add(open, block) == [open EXCEPT ![Len(open)] = Append(@, block)]

\* The lists of blocks of the open scopes after the innermost is closed:
\* it becomes one Attribute block of the scope around it.
Close(open) ==
  Add(SubSeq(open, 1, Len(open) - 1),
      [kind |-> "Attribute", blocks |-> open[Len(open)]])

\* The blocks a run of world directives denotes; ok is FALSE for a run
\* with an AttributeEnd that closes nothing or closes an empty scope, with
\* a scope left open, or with a vector item.
RECURSIVE Forest(_, _, _)
Forest(toks, i, open) ==
  IF i > Len(toks)
  THEN [ok |-> Len(open) = 1, blocks |-> open[1]]
  ELSE CASE toks[i] = "AttributeBegin" ->
              Forest(toks, i + 1, Append(open, <<>>))
         [] toks[i] = "AttributeEnd" ->
              IF Len(open) = 1 \/ open[Len(open)] = <<>>
              THEN [ok |-> FALSE, blocks |-> <<>>]
              ELSE Forest(toks, i + 1, Close(open))
         [] toks[i] \in VectorTokens -> [ok |-> FALSE, blocks |-> <<>>]
         [] OTHER -> Forest(toks, i + 1, Add(open, NodeOf(toks[i])))

\* The blocks of a world section, and whether it is one: balanced scopes,
\* none of them empty, at least one block, no vector item.
WorldBlocks(toks) == Forest(toks, 1, <<<<>>>>).blocks

WorldOk(toks) == Forest(toks, 1, <<<<>>>>).ok /\ WorldBlocks(toks) # <<>>

\* The scopes of a run of world directives: "stray" if an AttributeEnd
\* closes nothing, "open" if a scope is left open, else "balanced".
RECURSIVE Scopes(_, _, _)
Scopes(toks, i, depth) ==
  IF i > Len(toks) THEN (IF depth > 0 THEN "open" ELSE "balanced")
  ELSE CASE toks[i] = "AttributeBegin" -> Scopes(toks, i + 1, depth + 1)
         [] toks[i] = "AttributeEnd" ->
              IF depth = 0 THEN "stray" ELSE Scopes(toks, i + 1, depth - 1)
         [] OTHER -> Scopes(toks, i + 1, depth)

\* Whether a scene description has a vector item among its directives.
HasVector(d) ==
  \E i \in 1..Len(SceneTokens(d)) : SceneTokens(d)[i] \in VectorTokens

\* A scene description that is the option directives, WorldBegin, a world
\* section, WorldEnd, and nothing but whitespace or a comment after it.
WellFormedScene(d) ==
  /\ \A i \in 1..Len(d.opts) : d.opts[i] \notin VectorTokens
  /\ d.wb
  /\ WorldOk(d.world)
  /\ d.we
  /\ d.trail # "shape"

\* C1: parse_scene returns Ok only for an input that is the option
\* directives, WorldBegin, at least one world block and WorldEnd, in this
\* order; an input without WorldBegin, without WorldEnd, or with no world
\* block between them returns Err.
C1_SceneStructure ==
  pc = "done" =>
    /\ out.t = "Ok" => WellFormedScene(src)
    /\ (~src.wb \/ ~src.we \/ src.world = <<>>) => out.t = "Err"

\* C2: when the grammar matches through WorldEnd and a directive follows
\* WorldEnd, parse_scene returns an error.
C2_TrailingContentIsError ==
  (/\ pc = "done"
   /\ src.opts # <<>>
   /\ \A i \in 1..Len(src.opts) : src.opts[i] \notin VectorTokens
   /\ src.wb
   /\ WorldOk(src.world)
   /\ src.we
   /\ src.trail = "shape")
  => out.t = "Err"

\* C3: an input that starts with WorldBegin, with no option directive
\* before it, and is otherwise well formed parses to a Scene whose options
\* are empty.
C3_ZeroOptionsAccepted ==
  (pc = "done" /\ src.opts = <<>> /\ WellFormedScene(src))
  => (out.t = "Ok" /\ out.scene.options = <<>>)

\* C4: a parameter item of a type that is none of the eight known tags
\* makes parse_scene return an error to its caller; the call never aborts.
C4_UnknownTypeIsError ==
  pc = "done" =>
    /\ out.t \in {"Ok", "Err"}
    /\ HasVector(src) => out.t = "Err"

\* C5: a world section with an AttributeBegin that no AttributeEnd closes
\* before the input ends, or with an AttributeEnd that closes no open
\* scope, makes parse_scene return an error.
C5_UnbalancedScopeIsError ==
  (pc = "done" /\ src.wb /\ Scopes(WorldSection(src), 1, 0) # "balanced")
  => out.t = "Err"

\* C6: in a parsed Scene, options holds the option directives in source
\* order, one entry per occurrence, and world_objects holds the top-level
\* world blocks in source order.
C6_SourceOrderKept ==
  (pc = "done" /\ out.t = "Ok") =>
    /\ out.scene.options =
         [i \in 1..Len(src.opts) |-> NodeOf(src.opts[i])]
    /\ Len(out.scene.world_objects) = Len(WorldBlocks(src.world))
    /\ \A i \in 1..Len(out.scene.world_objects) :
         /\ out.scene.world_objects[i].kind = WorldBlocks(src.world)[i].kind
         /\ WorldBlocks(src.world)[i].kind # "Attribute" =>
              out.scene.world_objects[i] = WorldBlocks(src.world)[i]

\* A scene with the same option directive written twice has been parsed.
C6_Witness ==
  /\ pc = "done"
  /\ out.t = "Ok"
  /\ Len(src.opts) = 2
  /\ src.opts[1] = src.opts[2]
  /\ Len(out.scene.options) = 2

\* An AttributeBegin directly followed by its AttributeEnd.
EmptyScope(toks) ==
  \E i \in 1..(Len(toks) - 1) :
    toks[i] = "AttributeBegin" /\ toks[i + 1] = "AttributeEnd"

\* C7: in a parsed Scene every AttributeBegin ... AttributeEnd pair is one
\* Attribute block holding the blocks between the pair in source order,
\* nested as the pairs are nested; a scene with a pair around no block is
\* not parsed.
C7_AttributeNesting ==
  pc = "done" =>
    /\ out.t = "Ok" =>
         /\ WorldOk(src.world)
         /\ out.scene.world_objects = WorldBlocks(src.world)
    /\ EmptyScope(src.world) => out.t # "Ok"

\* A scene with a scope nested in a scope has been parsed.
C7_Witness ==
  /\ pc = "done"
  /\ out.t = "Ok"
  /\ out.scene.world_objects[1].kind = "Attribute"
  /\ out.scene.world_objects[1].blocks[1].kind = "Attribute"

\* ------------------------------------------------------------------------
\* Parameter sets: a run of items, alone and after Material "m"
\* ------------------------------------------------------------------------
\* The text of each parameter item the sets are written with.
ItemText(name) ==
  CASE name = "IntegerX" ->
         <<"\"", "i", "n", "t", "e", "g", "e", "r", " ", "x", "\"", " ", "1">>
    [] name = "StringF" ->
         <<"\"", "s", "t", "r", "i", "n", "g", " ", "f", "\"", " ", "\"", "a", ".", "b", "\"">>
    [] name = "FloatR" ->
         <<"\"", "f", "l", "o", "a", "t", " ", "r", "\"", " ", "[", "1", " ", ".", "5", "]">>
    [] name = "BoolB" ->
         <<"\"", "b", "o", "o", "l", " ", "b", "\"", " ", "t", "r", "u", "e">>

ItemNames == {"IntegerX", "StringF", "FloatR", "BoolB"}

\* The items of a set joined by single spaces, then the tail.
ParamSetText(items, tail) ==
  Join([i \in 1..Len(items) |-> ItemText(items[i])], <<" ">>) \o tail

ParamSetInit ==
  /\ src \in [items : SeqsUpTo(ItemNames, MaxItems), tail : Tails]
  /\ input = ParamSetText(src.items, src.tail)
  /\ buf = <<>>
  /\ out = None
  /\ out2 = None
  /\ pc = "params"

\* param_set on the items.
ParseParamSet ==
  /\ pc = "params"
  /\ out = None
  /\ out' = param_set(input, 1)
  /\ UNCHANGED <<src, input, buf, out2, pc>>

\* material on Material "m" and the items after it.
ParseMaterial ==
  /\ pc = "params"
  /\ out2 = None
  /\ out2' = material(TokenText("Material") \o
                        (IF src.items = <<>> THEN <<>> ELSE <<" ">>) \o input,
                      1)
  /\ UNCHANGED <<src, input, buf, out, pc>>

ParamSetNext == ParseParamSet \/ ParseMaterial

SpecParamSet == ParamSetInit /\ [][ParamSetNext]_vars

\* The ParamSetItem each item text denotes.
ItemOf(name) ==
  CASE name = "IntegerX" -> [name |-> <<"x">>, values |-> Value("Int", <<1>>)]
    [] name = "StringF" ->
         [name |-> <<"f">>, values |-> Value("String", <<<<"a", ".", "b">>>>)]
    [] name = "FloatR" ->
         [name |-> <<"r">>, values |-> Value("Float", <<<<1, 0>>, <<5, -1>>>>)]
    [] name = "BoolB" -> [name |-> <<"b">>, values |-> Value("Bool", <<TRUE>>)]

\* C11: param_set succeeds on every run of items, with one ParamSetItem
\* per item in source order; with no item it succeeds with the empty set
\* and consumes nothing, so a directive with only its quoted name parses.
C11_ParamSetNeverFails ==
  pc = "params" =>
    /\ out # None =>
         /\ out.t = "Done"
         /\ out.v = [i \in 1..Len(src.items) |-> ItemOf(src.items[i])]
         /\ src.items = <<>> => out.p = 1
    /\ out2 # None =>
         /\ out2.t = "Done"
         /\ out2.v.ps = [i \in 1..Len(src.items) |-> ItemOf(src.items[i])]

\* The empty set has been parsed before a following directive, consuming
\* nothing, and Material "m" has been parsed with it.
C11_Witness ==
  /\ pc = "params"
  /\ src.items = <<>>
  /\ src.tail # <<>>
  /\ out = Done(1, <<>>)
  /\ out2.t = "Done"
  /\ out2.v.ps = <<>>

\* ------------------------------------------------------------------------
\* Numeric literals: number and integer on the same text
\* ------------------------------------------------------------------------
Signs == {<<>>, <<"+">>, <<"-">>}

DigitRuns == SeqsUpTo({"0", "3"}, MaxDigits)

Exponents == {<<>>, <<"e", "5">>, <<"E", "-", "2">>, <<"e", "+", "1">>}

\* What follows a literal: the end of the input, or a space.
Rests == {<<>>, <<" ">>}

\* A literal in parts: sign, integral digits, whether "." is written,
\* fractional digits (none without "."), exponent, and what follows.
NumberSrcs ==
  {d \in [sign : Signs, int : DigitRuns, dot : BOOLEAN, frac : DigitRuns,
          exp : Exponents, rest : Rests] : ~d.dot => d.frac = <<>>}

\* The bytes of a literal.
LiteralText(d) ==
  d.sign \o d.int \o (IF d.dot THEN <<".">> ELSE <<>>) \o d.frac \o d.exp

NumberInit ==
  /\ src \in NumberSrcs
  /\ input = LiteralText(src) \o src.rest
  /\ buf = <<>>
  /\ out = None
  /\ out2 = None
  /\ pc = "literal"

ParseNumber ==
  /\ pc = "literal"
  /\ out = None
  /\ out' = number(input, 1)
  /\ UNCHANGED <<src, input, buf, out2, pc>>

ParseInteger ==
  /\ pc = "literal"
  /\ out2 = None
  /\ out2' = integer(input, 1)
  /\ UNCHANGED <<src, input, buf, out, pc>>

NumberNext == ParseNumber \/ ParseInteger

SpecNumber == NumberInit /\ [][NumberNext]_vars

\* The value of each exponent.
ExponentValue(exp) ==
  CASE exp = <<>> -> 0
    [] exp = <<"e", "5">> -> 5
    [] exp = <<"E", "-", "2">> -> 0 - 2
    [] exp = <<"e", "+", "1">> -> 1

\* The digits of a literal as a natural number, the sign applied.
Signed(d, digits) ==
  IF d.sign = <<"-">> THEN 0 - DigitsVal(digits, 0) ELSE DigitsVal(digits, 0)

\* The decimal a literal with a mantissa digit denotes.
LiteralValue(d) ==
  Normal(Signed(d, d.int \o d.frac), ExponentValue(d.exp) - Len(d.frac))

\* C12: number accepts a literal made of an optional sign, a mantissa of
\* one of the forms digits.digits, digits., .digits and digits, and an
\* optional exponent, consumes all of it and gives its value; it rejects a
\* text whose mantissa has no digit, such as "." and "e5".
C12_NumberGrammar ==
  (pc = "literal" /\ out # None) =>
    IF src.int # <<>> \/ src.frac # <<>>
    THEN out = Done(Len(LiteralText(src)) + 1, LiteralValue(src))
    ELSE out.t # "Done"

\* The literal "3." has been consumed whole.
C12_Witness ==
  /\ pc = "literal"
  /\ src.sign = <<>>
  /\ src.int = <<"3">>
  /\ src.dot
  /\ src.frac = <<>>
  /\ src.exp = <<>>
  /\ out = Done(3, <<3, 0>>)

\* C13: integer accepts an optional sign and one or more digits, and
\* rejects a text in which a decimal point is written.
C13_IntegerRejectsPoint ==
  (pc = "literal" /\ out2 # None) =>
    /\ (src.int # <<>> /\ ~src.dot /\ src.exp = <<>>) =>
         out2 = Done(Len(LiteralText(src)) + 1, Signed(src, src.int))
    /\ src.dot => out2.t # "Done"

\* ------------------------------------------------------------------------
\* Texts: comment stripping, then quoted_name and ascii on the result
\* ------------------------------------------------------------------------
\* A letter, a character that is not alphanumeric, the comment marker, the
\* newline, the quote, and a byte that is not UTF-8.
TextBytes == {"a", ".", "#", "\n", QUOTE, xFF}

TextInit ==
  /\ src \in SeqsUpTo(TextBytes, MaxText)
  /\ input = src
  /\ buf = <<>>
  /\ out = None
  /\ out2 = None
  /\ pc = "text"

\* strip_comment on the text.
StripComment ==
  /\ pc = "text"
  /\ buf' = strip_comment(input).v
  /\ pc' = "stripped"
  /\ UNCHANGED <<src, input, out, out2>>

\* quoted_name on the stripped text.
ParseQuotedName ==
  /\ pc = "stripped"
  /\ out = None
  /\ out' = quoted_name(buf, 1)
  /\ UNCHANGED <<src, input, buf, out2, pc>>

\* ascii on the stripped text.
ParseAscii ==
  /\ pc = "stripped"
  /\ out2 = None
  /\ out2' = ascii(buf, 1)
  /\ UNCHANGED <<src, input, buf, out, pc>>

TextNext == StripComment \/ ParseQuotedName \/ ParseAscii

SpecText == TextInit /\ [][TextNext]_vars

\* Position i of s lies in a comment: in a run from a "#" up to, and not
\* including, the next newline, where there is a next newline.
InComment(s, i) ==
  /\ s[i] # "\n"
  /\ \E h \in 1..i : s[h] = "#" /\ \A j \in h..i : s[j] # "\n"
  /\ \E n \in (i + 1)..Len(s) : s[n] = "\n"

\* The bytes of s from i on that lie in no comment, in place.
RECURSIVE Uncommented(_, _)
Uncommented(s, i) ==
  IF i > Len(s) THEN <<>>
  ELSE (IF InComment(s, i) THEN <<>> ELSE <<s[i]>>) \o Uncommented(s, i + 1)

\* C14: strip_comment replaces every run from a "#" up to and including
\* the next newline by one newline and keeps every other byte in place;
\* a text without a "#" is returned unchanged.
C14_CommentsReplaced ==
  pc = "stripped" =>
    /\ buf = Uncommented(input, 1)
    /\ (\A i \in 1..Len(input) : input[i] # "#") => buf = input

\* s opens with a quote and k is the place of the quote that closes it,
\* with only bytes of the class between the two.
Quoted(s, k, class) ==
  /\ k \in 2..Len(s)
  /\ s[1] = QUOTE
  /\ s[k] = QUOTE
  /\ \A i \in 2..(k - 1) : s[i] \in class

\* The characters a quoted string may hold: any but the quote.
StringChars == (TextBytes \ {QUOTE}) \ NonUtf8

\* C15: quoted_name accepts exactly one or more alphanumeric characters
\* between two quotes, and rejects any other character inside and a
\* missing closing quote; ascii accepts any characters other than the
\* quote between two quotes, and nothing without the closing quote.
C15_NameVersusString ==
  /\ (pc = "stripped" /\ out # None) =>
       /\ out.t = "Done" <=> \E k \in 3..Len(buf) : Quoted(buf, k, AlphaNumChars)
       /\ out.t = "Done" =>
            /\ Quoted(buf, out.p - 1, AlphaNumChars)
            /\ out.v = SubSeq(buf, 2, out.p - 2)
  /\ (pc = "stripped" /\ out2 # None) =>
       /\ \A k \in 2..Len(buf) :
            Quoted(buf, k, StringChars) => out2 = Done(k + 1, SubSeq(buf, 2, k - 1))
       /\ out2.t = "Done" => \E k \in 2..Len(buf) : Quoted(buf, k, StringChars)

\* The text "a." is no name and is a string.
C15_Witness ==
  /\ pc = "stripped"
  /\ buf = <<QUOTE, "a", ".", QUOTE>>
  /\ out = Err
  /\ out2 = Done(5, <<"a", ".">>)

\* The text opens with a quoted string that closes at k and holds its
\* first "#" at h, and the line of the string ends in a newline.
HashInString(s, h, k) ==
  /\ h \in 2..(k - 1)
  /\ Quoted(s, k, StringChars)
  /\ s[h] = "#"
  /\ \A j \in 1..(h - 1) : s[j] # "#"
  /\ \A j \in h..k : s[j] # "\n"
  /\ \E n \in (k + 1)..Len(s) : s[n] = "\n"

\* C17: a "#" inside a quoted string starts a comment: the rest of the
\* line, the closing quote included, is replaced by the newline before
\* the grammar runs, and the string the parser sees is not the one written.
C17_HashInStringIsComment ==
  (pc = "stripped" /\ out2 # None) =>
    \A h, k \in 1..Len(input) :
      HashInString(input, h, k) =>
        /\ Len(buf) >= h
        /\ SubSeq(buf, 1, h) = SubSeq(input, 1, h - 1) \o <<"\n">>
        /\ out2 # ascii(input, 1)


\* ------------------------------------------------------------------------
\* Progress: the elements of the repetitions, at every place of a scene
\* ------------------------------------------------------------------------
NestTokens == {"AttributeBegin", "AttributeEnd", "Shape"}

\* Scenes with a parameter item in the options and scopes in the world.
ProgressScenes ==
  {SceneSrc(<<"Camera">>, TRUE, w, TRUE, "none") :
     w \in SeqsUpTo(NestTokens, MaxWorld)}

\* A stripped scene and a place in it where a parser may be entered.
ProgressInit ==
  /\ \E d \in ProgressScenes :
       \E p \in 1..(Len(SceneText(d)) + 1) :
         /\ src = [scene |-> d, pos |-> p]
         /\ input = SceneText(d)
  /\ buf = strip_comment(input).v
  /\ out = None
  /\ out2 = None
  /\ pc = "at"

\* One iteration of the many1! of option_block.
OptionIteration ==
  /\ pc = "at"
  /\ out' = option_alt(buf, src.pos)
  /\ pc' = "option_block"
  /\ UNCHANGED <<src, input, buf, out2>>

\* One iteration of the many1! of world_objects.
WorldIteration ==
  /\ pc = "at"
  /\ out' = world_alt(buf, src.pos)
  /\ pc' = "world_objects"
  /\ UNCHANGED <<src, input, buf, out2>>

\* One iteration of the many0! of param_set.
ItemIteration ==
  /\ pc = "at"
  /\ out' = param_set_item(buf, src.pos)
  /\ pc' = "param_set"
  /\ UNCHANGED <<src, input, buf, out2>>

\* attribute up to its entry into world_objects.
AttributeEntry ==
  /\ pc = "at"
  /\ out' = attribute_begin(buf, src.pos)
  /\ pc' = "attribute"
  /\ UNCHANGED <<src, input, buf, out2>>

ProgressNext ==
  OptionIteration \/ WorldIteration \/ ItemIteration \/ AttributeEntry

SpecProgress == ProgressInit /\ [][ProgressNext]_vars

\* C18: every iteration of the repetitions of option_block, world_objects
\* and param_set that succeeds, and every entry of attribute into
\* world_objects, leaves less input than it was given; every one of them
\* ends with a result.
C18_IterationsConsume ==
  pc \in {"option_block", "world_objects", "param_set", "attribute"} =>
    /\ out.t \in {"Done", "Error", "Incomplete"}
    /\ out.t = "Done" => out.p > src.pos

\* An iteration of world_objects entered before a separator has parsed
\* an attribute that holds an attribute.
C18_Witness ==
  /\ pc = "world_objects"
  /\ src.pos <= Len(buf)
  /\ buf[src.pos] = " "
  /\ out.t = "Done"
  /\ out.v.kind = "Attribute"
  /\ out.v.blocks[1].kind = "Attribute"

====
